---- MODULE Spec2Model ----
(***************************************************************************)
(* DNS configuration backends of talpid:                                   *)
(*   - talpid-core/src/dns/windows/mod.rs : registry-backed DnsMonitor     *)
(*   - talpid-dbus/src/systemd_resolved.rs: systemd-resolved over D-Bus    *)
(* The two backends are independent; each has its own specification.       *)
(***************************************************************************)
EXTENDS Integers, Sequences, FiniteSets, TLC

VARIABLES
    \* registry backend
    current_guid,   \* DnsMonitor.current_guid : Option<GUID>
    reg,            \* committed values under ...\{service}\Parameters\Interfaces\{guid}
    key_exists,     \* which interface configuration keys exist in the registry
    applied,        \* history: a set committed and no reset committed since
    last,           \* history: what the last call to set/reset did and returned
    \* systemd-resolved backend
    link,           \* resolved's configuration of the tunnel link: DNS, domains
    rpcs,           \* the method calls issued by the last operation, in order
    ret,            \* the last operation: its arguments and what it returned
    \* resolv.conf preflight
    fs,             \* /etc/resolv.conf and the files it is compared with
    pre,            \* the last preflight: its result and the file accesses made
    \* watch_dns_changes
    pc,             \* where the call to watch_dns_changes is
    keep_running,   \* what the caller's should_continue returns when asked
    dns_matcher,    \* the match registered on the connection, if any
    hist,           \* history: the calls made so far and the last signal handled
    wres            \* what watch_dns_changes returned

regVars == <<current_guid, reg, key_exists, applied, last>>
ipcVars == <<link, rpcs, ret>>
preVars == <<fs, pre>>
watchVars == <<pc, keep_running, dns_matcher, hist, wres>>
vars == <<regVars, ipcVars, preVars, watchVars>>

(***************************************************************************)
(* Bounds                                                                  *)
(***************************************************************************)
\* longest server list handed to DnsMonitor::set
MaxServers == 2
\* most entries in one DNS change signal
MaxBatch == 2
\* most times should_continue is asked during one watch_dns_changes
MaxPolls == 2

(***************************************************************************)
(* IP addresses (std::net::IpAddr): a family tag and the raw octets        *)
(***************************************************************************)
V4a == [v |-> 4, octets |-> <<10, 64, 0, 1>>]
V4b == [v |-> 4, octets |-> <<10, 8, 0, 1>>]
V6a == [v |-> 6, octets |-> <<252, 0, 187, 187, 187, 187, 187, 1, 0, 0, 0, 0, 0, 0, 0, 1>>]

Addrs == {V4a, V4b, V6a}

is_ipv4(addr) == addr.v = 4
is_ipv6(addr) == addr.v = 6

RECURSIVE SeqsUpTo(_, _)
SeqsUpTo(S, n) ==
    IF n = 0 THEN {<<>>}
    ELSE LET shorter == SeqsUpTo(S, n - 1)
         IN  shorter \cup {Append(s, e) : s \in {t \in shorter : Len(t) = n - 1}, e \in S}

Range(s) == {s[i] : i \in DOMAIN s}

\* server lists offered to the registry backend: no address repeated
ServerLists == {s \in SeqsUpTo(Addrs, MaxServers) : Cardinality(Range(s)) = Len(s)}

(***************************************************************************)
(* addr.to_string(): Display of Ipv4Addr / Ipv6Addr                        *)
(***************************************************************************)
DigitChars == <<"0", "1", "2", "3", "4", "5", "6", "7", "8", "9",
                "a", "b", "c", "d", "e", "f">>

RECURSIVE NumStr(_, _)
NumStr(n, base) ==
    IF n < base THEN DigitChars[n + 1]
    ELSE NumStr(n \div base, base) \o DigitChars[(n % base) + 1]

Ipv4ToString(o) ==
    NumStr(o[1], 10) \o "." \o NumStr(o[2], 10) \o "." \o
    NumStr(o[3], 10) \o "." \o NumStr(o[4], 10)

\* the eight 16-bit segments of an IPv6 address
Segments(o) == [i \in 1..8 |-> o[2 * i - 1] * 256 + o[2 * i]]

\* length of the run of zero segments starting at segment i
RECURSIVE ZeroRun(_, _)
ZeroRun(segs, i) ==
    IF i > 8 \/ segs[i] # 0 THEN 0 ELSE 1 + ZeroRun(segs, i + 1)

\* first longest run of zero segments, as [start, len]
LongestZeroRun(segs) ==
    LET best == CHOOSE i \in 1..8 :
                    /\ \A j \in 1..8 : ZeroRun(segs, j) <= ZeroRun(segs, i)
                    /\ \A j \in 1..(i - 1) : ZeroRun(segs, j) < ZeroRun(segs, i)
    IN  [start |-> best, len |-> ZeroRun(segs, best)]

RECURSIVE HexSegs(_, _, _)
HexSegs(segs, from, to) ==
    IF from > to THEN ""
    ELSE NumStr(segs[from], 16) \o
         (IF from < to THEN ":" ELSE "") \o HexSegs(segs, from + 1, to)

Ipv6ToString(o) ==
    LET segs == Segments(o)
        run  == LongestZeroRun(segs)
    IN  IF \A i \in 1..5 : segs[i] = 0 /\ segs[6] = 65535
        THEN "::ffff:" \o Ipv4ToString(<<o[13], o[14], o[15], o[16]>>)
        ELSE IF run.len > 1
        THEN HexSegs(segs, 1, run.start - 1) \o "::" \o
             HexSegs(segs, run.start + run.len, 8)
        ELSE HexSegs(segs, 1, 8)

Display(addr) ==
    IF addr.v = 4 THEN Ipv4ToString(addr.octets) ELSE Ipv6ToString(addr.octets)

\* the textual form of every address of the universe, computed once
AddrText == [addr \in Addrs |-> Display(addr)]

to_string(addr) == AddrText[addr]

\* Vec<String>::join(",")
RECURSIVE join(_, _)
join(strs, sep) ==
    IF Len(strs) = 0 THEN ""
    ELSE IF Len(strs) = 1 THEN strs[1]
    ELSE strs[1] \o sep \o join(Tail(strs), sep)

Filter(s, Test(_)) == SelectSeq(s, Test)
MapSeq(s, F(_)) == [i \in 1..Len(s) |-> F(s[i])]

(***************************************************************************)
(* Registry-backed configurator: talpid-core/src/dns/windows/mod.rs        *)
(***************************************************************************)
\* Option<T>
NoneOpt == <<>>
Some(x) == <<x>>

Guids == {"guid0", "guid1"}
Services == {"Tcpip", "Tcpip6"}
\* interface aliases handed to set: one tunnel interface, one alias that names
\* no interface, one whose LUID has no GUID
Aliases == {"tun0", "gone", "noguid"}

IoOk == [ok |-> TRUE, err |-> ""]
IoErr(kind) == [ok |-> FALSE, err |-> kind]

\* crate::windows::luid_from_alias
luid_from_alias(alias) ==
    CASE alias = "tun0" -> [ok |-> TRUE, val |-> "luid0"]
      [] alias = "tun1" -> [ok |-> TRUE, val |-> "luid1"]
      [] alias = "noguid" -> [ok |-> TRUE, val |-> "luid2"]
      [] OTHER -> [ok |-> FALSE, val |-> ""]

\* crate::windows::guid_from_luid
guid_from_luid(luid) ==
    CASE luid = "luid0" -> [ok |-> TRUE, val |-> "guid0"]
      [] luid = "luid1" -> [ok |-> TRUE, val |-> "guid1"]
      [] OTHER -> [ok |-> FALSE, val |-> ""]

\* Points at which a call into the registry, the transaction manager or the
\* process launcher is made to fail.  primary: at most one failing call on the
\* way to commit; rollback: Transaction::rollback fails; flush: which step of
\* flush_dns_cache fails.
NoFault == <<"none">>
PrimaryFaults ==
    {NoFault, <<"tx_new">>, <<"commit">>} \cup
    {<<p, s>> : p \in {"open", "write"}, s \in Services}
MulticastFaults == {<<"multicast", s>> : s \in Services}
FlushFaults == {"none", "sysdir", "ipconfig"}
\* a rollback can only fail after an update has failed, and the cache flush of
\* a call whose update failed is reached in reset alone
FaultVectors ==
    {f \in [primary : PrimaryFaults, rollback : BOOLEAN, flush : FlushFaults] :
        /\ f.rollback => f.primary \notin {<<"tx_new">>, <<"commit">>}
        /\ f.flush # "none" => f.primary = NoFault /\ ~f.rollback}

\* every call succeeds
NoFaults == [primary |-> NoFault, rollback |-> FALSE, flush |-> "none"]
\* the failures of the calls whose success decides the result of set_dns
TransactionFaults ==
    {f \in FaultVectors : f.primary \in {NoFault, <<"tx_new">>, <<"commit">>}
                           /\ f.flush = "none"}
\* the write of EnableMulticast failing in one namespace
MulticastFaultVectors ==
    {NoFaults} \cup
    {[primary |-> m, rollback |-> FALSE, flush |-> "none"] : m \in MulticastFaults}

EmptyKey == [NameServer |-> NoneOpt, EnableMulticast |-> NoneOpt]

\* RegKey::open_subkey_transacted_with_flags on the interface's key
open_subkey(exists, guid, service, f) ==
    IF f.primary = <<"open", service>> THEN IoErr("PermissionDenied")
    ELSE IF ~exists[guid][service] THEN IoErr("NotFound")
    ELSE IoOk

\* RegKey::delete_value("NameServer")
delete_value(key, service, f) ==
    IF f.primary = <<"write", service>> THEN IoErr("PermissionDenied")
    ELSE IF key.NameServer = NoneOpt THEN IoErr("NotFound")
    ELSE IoOk

\* RegKey::set_value("NameServer", ..)
set_value(key, service, f) ==
    IF f.primary = <<"write", service>> THEN IoErr("PermissionDenied") ELSE IoOk

\* the key after the NameServer update and the attempt to disable LLMNR
updated_key(key, service, nameservers, f) ==
    [NameServer |-> IF nameservers # <<>> THEN Some(join(nameservers, ","))
                    ELSE NoneOpt,
     EnableMulticast |-> IF f.primary = <<"multicast", service>>
                         THEN key.EnableMulticast ELSE Some(0)]

\* config_interface treating a missing key as nothing to do for any partition
configure_key_missing_ok(view, guid, service, nameservers, open, f) ==
    IF ~open.ok
    THEN IF open.err = "NotFound"
         THEN [res |-> IoOk, view |-> view, opened |-> FALSE]
         ELSE [res |-> open, view |-> view, opened |-> FALSE]
    ELSE [res |-> IoOk,
          view |-> [view EXCEPT ![guid][service] =
                       updated_key(view[guid][service], service, nameservers, f)],
          opened |-> TRUE]

\* config_interface returning the error of the EnableMulticast write
configure_key_multicast_fatal(view, guid, service, nameservers, open, f) ==
    IF ~open.ok
    THEN IF nameservers = <<>> /\ open.err = "NotFound"
         THEN [res |-> IoOk, view |-> view, opened |-> FALSE]
         ELSE [res |-> open, view |-> view, opened |-> FALSE]
    ELSE IF f.primary = <<"multicast", service>>
    THEN [res |-> IoErr("PermissionDenied"), view |-> view, opened |-> TRUE]
    ELSE [res |-> IoOk,
          view |-> [view EXCEPT ![guid][service] =
                       updated_key(view[guid][service], service, nameservers, f)],
          opened |-> TRUE]

\* config_interface once the key has been opened, or has failed to open
configure_key(view, guid, service, nameservers, open, f) ==
    IF ~open.ok
    THEN IF nameservers = <<>> /\ open.err = "NotFound"
         THEN [res |-> IoOk, view |-> view, opened |-> FALSE]
         ELSE [res |-> open, view |-> view, opened |-> FALSE]
    ELSE IF nameservers # <<>> /\ ~set_value(view[guid][service], service, f).ok
    THEN [res |-> set_value(view[guid][service], service, f), view |-> view,
          opened |-> TRUE]
    ELSE IF nameservers = <<>> /\ ~delete_value(view[guid][service], service, f).ok
                            /\ delete_value(view[guid][service], service, f).err # "NotFound"
    THEN [res |-> delete_value(view[guid][service], service, f), view |-> view,
          opened |-> TRUE]
    ELSE [res |-> IoOk,
          view |-> [view EXCEPT ![guid][service] =
                       updated_key(view[guid][service], service, nameservers, f)],
          opened |-> TRUE]

\* config_interface: one namespace update inside the transaction.
\* view is the registry as seen through the transaction.
config_interface(view, exists, guid, service, nameservers_iter, f) ==
    configure_key(view, guid, service, MapSeq(nameservers_iter, to_string),
                  open_subkey(exists, guid, service, f), f)

\* what set_dns_inner returns after one or after both namespace updates
first_failed(tcpip) ==
    [res |-> tcpip.res, view |-> tcpip.view,
     updates |-> <<tcpip.res.ok>>, opened |-> <<tcpip.opened>>]

both_updated(tcpip, tcpip6) ==
    [res |-> tcpip6.res, view |-> tcpip6.view,
     updates |-> <<tcpip.res.ok, tcpip6.res.ok>>,
     opened |-> <<tcpip.opened, tcpip6.opened>>]

\* set_dns_inner after the IPv4 namespace: stop on its error, else the IPv6 one
then_tcpip6(tcpip, exists, interface, servers, f) ==
    IF ~tcpip.res.ok THEN first_failed(tcpip)
    ELSE both_updated(tcpip,
                      config_interface(tcpip.view, exists, interface, "Tcpip6",
                                       Filter(servers, is_ipv6), f))

\* set_dns_inner handing the whole server list to the IPv4 namespace
set_dns_inner_unfiltered(view, exists, interface, servers, f) ==
    then_tcpip6(config_interface(view, exists, interface, "Tcpip", servers, f),
                exists, interface, servers, f)

\* set_dns_inner: the IPv4 namespace, then the IPv6 namespace
set_dns_inner(view, exists, interface, servers, f) ==
    then_tcpip6(config_interface(view, exists, interface, "Tcpip",
                                 Filter(servers, is_ipv4), f),
                exists, interface, servers, f)

\* the outcome of set_dns: the store afterwards and what was done
Outcome(result, store, tx_opened, inner, committed, rollback) ==
    [result |-> result, store |-> store, tx_opened |-> tx_opened,
     updates |-> IF tx_opened THEN inner.updates ELSE <<>>,
     opened |-> IF tx_opened THEN inner.opened ELSE <<>>,
     committed |-> committed, rollback |-> rollback]

\* a failed transaction that is neither rolled back nor discarded: the writes
\* made before the failing update reach the store
end_transaction_no_rollback(store, inner, f) ==
    IF f.primary = <<"tx_new">>
    THEN Outcome("SetResolversError", store, FALSE, inner, FALSE, FALSE)
    ELSE IF inner.res.ok
    THEN IF f.primary = <<"commit">>
         THEN Outcome("SetResolversError", store, TRUE, inner, FALSE, FALSE)
         ELSE Outcome("Ok", inner.view, TRUE, inner, TRUE, FALSE)
    ELSE Outcome("SetResolversError", inner.view, TRUE, inner, FALSE, TRUE)

\* Transaction::new, then commit after Ok and rollback after Err; both results
\* are mapped to SetResolversError.  store is the committed registry, which a
\* transaction that did not commit leaves alone.
end_transaction(store, inner, f) ==
    IF f.primary = <<"tx_new">>
    THEN Outcome("SetResolversError", store, FALSE, inner, FALSE, FALSE)
    ELSE IF inner.res.ok
    THEN IF f.primary = <<"commit">>
         THEN Outcome("SetResolversError", store, TRUE, inner, FALSE, FALSE)
         ELSE Outcome("Ok", inner.view, TRUE, inner, TRUE, FALSE)
    ELSE Outcome("SetResolversError", store, TRUE, inner, FALSE, TRUE)

\* set_dns: open a transaction, update both namespaces, commit or roll back
set_dns(store, exists, interface, servers, f) ==
    end_transaction(store, set_dns_inner(store, exists, interface, servers, f), f)

\* flush_dns_cache: locate the system directory, run ipconfig /flushdns
flush_dns_cache(f) ==
    IF f.flush = "sysdir" THEN [result |-> "SystemDirError", ran |-> FALSE]
    ELSE IF f.flush = "ipconfig" THEN [result |-> "ExecuteIpconfigError", ran |-> FALSE]
    ELSE [result |-> "Ok", ran |-> TRUE]

\* Which fault points a call actually consults; a fault vector naming a point
\* that is never reached describes the same call as one that does not name it.
Consulted(f, tx, flushCalled) ==
    /\ f.rollback => tx.rollback
    /\ f.flush # "none" => flushCalled
    /\ f.primary[1] \in {"open", "write", "multicast"} =>
          LET idx == IF f.primary[2] = "Tcpip" THEN 1 ELSE 2
          IN  /\ Len(tx.opened) >= idx
              /\ f.primary[1] \in {"write", "multicast"} => tx.opened[idx]
    /\ f.primary = <<"commit">> => tx.tx_opened /\ ~tx.rollback

NoCall == [op |-> "none", result |-> "Ok", guid |-> NoneOpt, servers |-> <<>>,
           tx_opened |-> FALSE, updates |-> <<>>, opened |-> <<>>,
           committed |-> FALSE, rollback |-> FALSE,
           flush_calls |-> 0, multicast_failed |-> FALSE, fault |-> NoFaults]

\* the interface of alias "tun0" may lack either configuration key
KeyLayouts ==
    {k \in [Guids -> [Services -> BOOLEAN]] : \A s \in Services : k["guid1"][s]}

\* the registry before any call: no NameServer, no EnableMulticast
NewRegistry == [g \in Guids |-> [s \in Services |-> EmptyKey]]
AllKeys == [g \in Guids |-> [s \in Services |-> TRUE]]

\* DnsMonitor::set, alias or identifier resolution failing
SetUnresolved(interface) ==
    LET luid == luid_from_alias(interface)
        guid == guid_from_luid(luid.val)
    IN  /\ ~luid.ok \/ ~guid.ok
        /\ last' = [NoCall EXCEPT !.op = "set",
                       !.result = IF ~luid.ok THEN "InterfaceLuidError"
                                  ELSE "InterfaceGuidError"]
        /\ UNCHANGED <<current_guid, reg, key_exists, applied>>
        /\ UNCHANGED <<ipcVars, preVars, watchVars>>

\* the record kept of a call that reached set_dns
CallRecord(op, guid, servers, f, tx, flushCalled) ==
    LET flush == flush_dns_cache(f)
    IN  [op |-> op,
         result |-> IF tx.result # "Ok" THEN tx.result
                    ELSE IF flushCalled THEN flush.result ELSE "Ok",
         guid |-> Some(guid), servers |-> servers,
         tx_opened |-> tx.tx_opened, updates |-> tx.updates, opened |-> tx.opened,
         committed |-> tx.committed, rollback |-> tx.rollback,
         flush_calls |-> IF flushCalled THEN 1 ELSE 0,
         multicast_failed |-> f.primary[1] = "multicast", fault |-> f]

\* set recording the interface only once the cache flush has succeeded
Set_record_after_flush(interface, servers, f) ==
    LET luid == luid_from_alias(interface)
        guid == guid_from_luid(luid.val)
    IN  /\ luid.ok /\ guid.ok
        /\ \E tx \in {set_dns(reg, key_exists, guid.val, servers, f)} :
              /\ Consulted(f, tx, tx.result = "Ok")
              /\ reg' = tx.store
              /\ current_guid' = IF tx.result = "Ok" /\ f.flush = "none"
                                 THEN Some(guid.val) ELSE current_guid
              /\ applied' = IF tx.committed THEN TRUE ELSE applied
              /\ last' = CallRecord("set", guid.val, servers, f, tx, tx.result = "Ok")
        /\ UNCHANGED <<key_exists, ipcVars, preVars, watchVars>>

\* set keeping the interface it tracked first
Set_keep_first(interface, servers, f) ==
    LET luid == luid_from_alias(interface)
        guid == guid_from_luid(luid.val)
    IN  /\ luid.ok /\ guid.ok
        /\ \E tx \in {set_dns(reg, key_exists, guid.val, servers, f)} :
              /\ Consulted(f, tx, tx.result = "Ok")
              /\ reg' = tx.store
              /\ current_guid' = IF tx.result = "Ok" /\ current_guid = NoneOpt
                                 THEN Some(guid.val) ELSE current_guid
              /\ applied' = IF tx.committed THEN TRUE ELSE applied
              /\ last' = CallRecord("set", guid.val, servers, f, tx, tx.result = "Ok")
        /\ UNCHANGED <<key_exists, ipcVars, preVars, watchVars>>

\* DnsMonitor::set, interface resolved
Set(interface, servers, f) ==
    LET luid == luid_from_alias(interface)
        guid == guid_from_luid(luid.val)
    IN  /\ luid.ok /\ guid.ok
        /\ \E tx \in {set_dns(reg, key_exists, guid.val, servers, f)} :
              /\ Consulted(f, tx, tx.result = "Ok")
              /\ reg' = tx.store
              /\ current_guid' = IF tx.result = "Ok" THEN Some(guid.val)
                                 ELSE current_guid
              /\ applied' = IF tx.committed THEN TRUE ELSE applied
              /\ last' = CallRecord("set", guid.val, servers, f, tx, tx.result = "Ok")
        /\ UNCHANGED <<key_exists, ipcVars, preVars, watchVars>>

\* DnsMonitor::reset with nothing tracked
ResetIdle ==
    /\ current_guid = NoneOpt
    /\ last' = [NoCall EXCEPT !.op = "reset"]
    /\ UNCHANGED <<current_guid, reg, key_exists, applied>>
    /\ UNCHANGED <<ipcVars, preVars, watchVars>>

\* reset reading the tracked interface without take(): it stays tracked
Reset_no_take(f) ==
    /\ current_guid # NoneOpt
    /\ \E tx \in {set_dns(reg, key_exists, current_guid[1], <<>>, f)} :
          /\ Consulted(f, tx, TRUE)
          /\ current_guid' = current_guid
          /\ reg' = tx.store
          /\ applied' = IF tx.committed THEN FALSE ELSE applied
          /\ last' = CallRecord("reset", current_guid[1], <<>>, f, tx, TRUE)
    /\ UNCHANGED <<key_exists, ipcVars, preVars, watchVars>>

\* DnsMonitor::reset with a tracked interface: take() it, then
\* set_dns(&guid, &[]).and(flush_dns_cache()); both operands are evaluated
Reset(f) ==
    /\ current_guid # NoneOpt
    /\ \E tx \in {set_dns(reg, key_exists, current_guid[1], <<>>, f)} :
          /\ Consulted(f, tx, TRUE)
          /\ current_guid' = NoneOpt
          /\ reg' = tx.store
          /\ applied' = IF tx.committed THEN FALSE ELSE applied
          /\ last' = CallRecord("reset", current_guid[1], <<>>, f, tx, TRUE)
    /\ UNCHANGED <<key_exists, ipcVars, preVars, watchVars>>

RegNext ==
    \/ \E interface \in Aliases : SetUnresolved(interface)
    \/ \E interface \in {"tun0"}, servers \in ServerLists,
          f \in FaultVectors : Set(interface, servers, f)
    \/ ResetIdle
    \/ \E f \in FaultVectors : Reset(f)

\* set and reset with two tunnel interfaces
TwoInterfacesNext ==
    \/ \E interface \in {"tun0", "tun1"}, servers \in ServerLists,
          f \in TransactionFaults : Set(interface, servers, f)
    \/ ResetIdle
    \/ \E f \in TransactionFaults : Reset(f)

\* set and reset with the write of EnableMulticast failing
MulticastNext ==
    \/ \E servers \in ServerLists, f \in MulticastFaultVectors : Set("tun0", servers, f)
    \/ ResetIdle
    \/ \E f \in MulticastFaultVectors : Reset(f)

(***************************************************************************)
(* systemd-resolved configurator: talpid-dbus/src/systemd_resolved.rs      *)
(***************************************************************************)
AF_INET == 2
AF_INET6 == 10

RESOLVED_BUS == "org.freedesktop.resolve1"
RESOLVED_MANAGER_PATH == "/org/freedesktop/resolve1"
LINK_INTERFACE == "org.freedesktop.resolve1.Link"
MANAGER_INTERFACE == "org.freedesktop.resolve1.Manager"
GET_LINK_METHOD == "GetLink"
SET_DNS_METHOD == "SetDNS"
SET_DOMAINS_METHOD == "SetDomains"
REVERT_METHOD == "Revert"

UnknownObject == "org.freedesktop.DBus.Error.UnknownObject"
\* the errors a method call can fail with, by D-Bus error name
DBusErrors == {UnknownObject, "org.freedesktop.DBus.Error.NoReply",
               "org.freedesktop.DBus.Error.AccessDenied"}

\* the interface index of the tunnel and the object path resolved gives its link
TunnelIndex == 3
TunnelLink == "/org/freedesktop/resolve1/link/_33"
\* the path of a link that resolved has since dropped
StaleLink == "/org/freedesktop/resolve1/link/_37"
LinkPaths == {TunnelLink, StaleLink}

ip_version(address) == IF address.v = 4 THEN AF_INET ELSE AF_INET6

ip_to_bytes(address) == address.octets

\* Ord for IpAddr: every V4 before every V6, then by octets
RECURSIVE OctetsLess(_, _)
OctetsLess(a, b) ==
    IF a = <<>> \/ b = <<>> THEN a = <<>> /\ b # <<>>
    ELSE IF a[1] # b[1] THEN a[1] < b[1]
    ELSE OctetsLess(Tail(a), Tail(b))

AddrLess(a, b) == IF a.v # b.v THEN a.v < b.v ELSE OctetsLess(a.octets, b.octets)

RECURSIVE InsertSorted(_, _)
InsertSorted(sorted, x) ==
    IF sorted = <<>> THEN <<x>>
    ELSE IF AddrLess(x, Head(sorted)) THEN <<x>> \o sorted
    ELSE <<Head(sorted)>> \o InsertSorted(Tail(sorted), x)

\* Vec::sort
RECURSIVE sort(_)
sort(v) == IF v = <<>> THEN <<>> ELSE InsertSorted(sort(SubSeq(v, 1, Len(v) - 1)), v[Len(v)])

\* one method call on the bus and its outcome
Call(path, interface, method, args, error, reply) ==
    [dest |-> RESOLVED_BUS, path |-> path, interface |-> interface,
     method |-> method, args |-> args, ok |-> error = "", error |-> error,
     reply |-> reply]

\* fetch_link: Manager.GetLink(interface_index); the index of a tunnel interface
\* is small, so its cast to i32 keeps its value
fetch_link(interface_index, error) ==
    LET call == Call(RESOLVED_MANAGER_PATH, MANAGER_INTERFACE, GET_LINK_METHOD,
                     <<interface_index>>, error,
                     IF error = "" THEN TunnelLink ELSE "")
    IN  [rpcs |-> <<call>>,
         res |-> IF call.ok THEN [ok |-> TRUE, err |-> "", path |-> call.reply]
                 ELSE [ok |-> FALSE, err |-> "DBusRpcError", path |-> ""]]

\* set_link_dns that goes on to SetDomains when SetDNS has failed
set_link_dns_no_stop(link_object_path, servers, errors, config) ==
    LET payload == MapSeq(servers, LAMBDA addr : <<ip_version(addr), ip_to_bytes(addr)>>)
        dns == Call(link_object_path, LINK_INTERFACE, SET_DNS_METHOD,
                    <<payload>>, errors.set_dns, "")
        dns_domains == <<<<".", TRUE>>>>
        domains == Call(link_object_path, LINK_INTERFACE, SET_DOMAINS_METHOD,
                        <<dns_domains>>, errors.set_domains, "")
    IN  IF ~domains.ok
        THEN [rpcs |-> <<dns, domains>>, err |-> "SetDomainsError",
              config |-> IF dns.ok THEN [config EXCEPT !.dns = payload] ELSE config]
        ELSE [rpcs |-> <<dns, domains>>, err |-> IF dns.ok THEN "" ELSE "DBusRpcError",
              config |-> IF dns.ok
                         THEN [config EXCEPT !.dns = payload, !.domains = dns_domains]
                         ELSE [config EXCEPT !.domains = dns_domains]]

\* set_link_dns: Link.SetDNS with the encoded servers, then Link.SetDomains
\* with the root domain as routing domain.  errors: the outcome of each call.
set_link_dns(link_object_path, servers, errors, config) ==
    LET payload == MapSeq(servers, LAMBDA addr : <<ip_version(addr), ip_to_bytes(addr)>>)
        dns == Call(link_object_path, LINK_INTERFACE, SET_DNS_METHOD,
                    <<payload>>, errors.set_dns, "")
        dns_domains == <<<<".", TRUE>>>>
        domains == Call(link_object_path, LINK_INTERFACE, SET_DOMAINS_METHOD,
                        <<dns_domains>>, errors.set_domains, "")
    IN  IF ~dns.ok
        THEN [rpcs |-> <<dns>>, err |-> "DBusRpcError", config |-> config]
        ELSE IF ~domains.ok
        THEN [rpcs |-> <<dns, domains>>, err |-> "SetDomainsError",
              config |-> [config EXCEPT !.dns = payload]]
        ELSE [rpcs |-> <<dns, domains>>, err |-> "",
              config |-> [config EXCEPT !.dns = payload, !.domains = dns_domains]]

\* set_dns sending the sorted copy of the servers
set_dns_call_sorted_payload(interface_index, servers, errors, config) ==
    LET fetched == fetch_link(interface_index, errors.get_link)
        set_servers == sort(servers)
        applied_ == set_link_dns(fetched.res.path, set_servers, errors, config)
    IN  IF ~fetched.res.ok
        THEN [rpcs |-> fetched.rpcs, config |-> config,
              res |-> [ok |-> FALSE, err |-> "GetLinkError", source |-> fetched.res.err,
                       state |-> NoneOpt]]
        ELSE IF applied_.err # ""
        THEN [rpcs |-> fetched.rpcs \o applied_.rpcs, config |-> applied_.config,
              res |-> [ok |-> FALSE, err |-> applied_.err, source |-> "dbus",
                       state |-> NoneOpt]]
        ELSE [rpcs |-> fetched.rpcs \o applied_.rpcs, config |-> applied_.config,
              res |-> [ok |-> TRUE, err |-> "", source |-> "",
                       state |-> Some([interface_path |-> fetched.res.path,
                                       interface_index |-> interface_index,
                                       set_servers |-> set_servers])]]

\* SystemdResolved::set_dns
set_dns_call(interface_index, servers, errors, config) ==
    LET fetched == fetch_link(interface_index, errors.get_link)
        set_servers == sort(servers)
        applied_ == set_link_dns(fetched.res.path, servers, errors, config)
    IN  IF ~fetched.res.ok
        THEN [rpcs |-> fetched.rpcs, config |-> config,
              res |-> [ok |-> FALSE, err |-> "GetLinkError", source |-> fetched.res.err,
                       state |-> NoneOpt]]
        ELSE IF applied_.err # ""
        THEN [rpcs |-> fetched.rpcs \o applied_.rpcs, config |-> applied_.config,
              res |-> [ok |-> FALSE, err |-> applied_.err, source |-> "dbus",
                       state |-> NoneOpt]]
        ELSE [rpcs |-> fetched.rpcs \o applied_.rpcs, config |-> applied_.config,
              res |-> [ok |-> TRUE, err |-> "", source |-> "",
                       state |-> Some([interface_path |-> fetched.res.path,
                                       interface_index |-> interface_index,
                                       set_servers |-> set_servers])]]

\* revert_link returning every failure of the call, UnknownObject included
revert_link_call_strict(dns_state, error, config) ==
    LET call == Call(dns_state.interface_path, LINK_INTERFACE, REVERT_METHOD,
                     <<>>, error, "")
    IN  [rpcs |-> <<call>>,
         config |-> IF call.ok THEN [dns |-> <<>>, domains |-> <<>>] ELSE config,
         res |-> IF ~call.ok
                 THEN [ok |-> FALSE, err |-> call.error, source |-> "dbus",
                       state |-> NoneOpt]
                 ELSE [ok |-> TRUE, err |-> "", source |-> "", state |-> NoneOpt]]

\* SystemdResolved::revert_link
revert_link_call(dns_state, error, config) ==
    LET call == Call(dns_state.interface_path, LINK_INTERFACE, REVERT_METHOD,
                     <<>>, error, "")
    IN  [rpcs |-> <<call>>,
         config |-> IF call.ok THEN [dns |-> <<>>, domains |-> <<>>] ELSE config,
         res |-> IF ~call.ok /\ call.error # UnknownObject
                 THEN [ok |-> FALSE, err |-> call.error, source |-> "dbus",
                       state |-> NoneOpt]
                 ELSE [ok |-> TRUE, err |-> "", source |-> "", state |-> NoneOpt]]

\* every sequence of at most MaxServers addresses, repetitions included
DnsLists == SeqsUpTo(Addrs, MaxServers)

\* at most one call of set_dns fails: the first failure ends the operation
SetDnsErrors ==
    {[get_link |-> "", set_dns |-> "", set_domains |-> ""]} \cup
    {[get_link |-> e, set_dns |-> "", set_domains |-> ""] : e \in DBusErrors} \cup
    {[get_link |-> "", set_dns |-> e, set_domains |-> ""] : e \in DBusErrors} \cup
    {[get_link |-> "", set_dns |-> "", set_domains |-> e] : e \in DBusErrors}

\* the DnsState values handed to revert_link
DnsStates ==
    [interface_path : LinkPaths, interface_index : {TunnelIndex},
     set_servers : {<<>>, <<V4a>>, <<V4b, V4a, V6a>>}]

\* a link that resolved has no configuration for
NoLinkConfig == [dns |-> <<>>, domains |-> <<>>]
NoOperation == [op |-> "none", servers |-> <<>>, dns_state |-> NoneOpt,
                res |-> [ok |-> TRUE, err |-> "", source |-> "", state |-> NoneOpt]]

SetDns(interface_index, servers, errors) ==
    \E out \in {set_dns_call(interface_index, servers, errors, link)} :
        /\ link' = out.config
        /\ rpcs' = out.rpcs
        /\ ret' = [op |-> "set_dns", servers |-> servers, dns_state |-> NoneOpt,
                   res |-> out.res]
        /\ UNCHANGED <<regVars, preVars, watchVars>>

\* a revert of a link that resolved no longer knows fails with UnknownObject
RevertLink(dns_state, error) ==
    /\ dns_state.interface_path = StaleLink => error = UnknownObject
    /\ \E out \in {revert_link_call(dns_state, error, link)} :
          /\ link' = out.config
          /\ rpcs' = out.rpcs
          /\ ret' = [op |-> "revert_link", servers |-> <<>>,
                     dns_state |-> Some(dns_state), res |-> out.res]
    /\ UNCHANGED <<regVars, preVars, watchVars>>

IpcNext ==
    \/ \E servers \in DnsLists, errors \in SetDnsErrors :
          SetDns(TunnelIndex, servers, errors)
    \/ \E dns_state \in DnsStates, error \in DBusErrors \cup {""} :
          RevertLink(dns_state, error)

(***************************************************************************)
(* watch_dns_changes and the decoding of DNS change signals                *)
(***************************************************************************)
DNS_SERVERS == "DNS"

\* a value of a D-Bus message (dyn RefArg): its type, and its number, its bytes
\* or its elements
I32(n) == [t |-> "i32", n |-> n, bytes |-> <<>>, items |-> <<>>]
Str(n) == [t |-> "string", n |-> n, bytes |-> <<>>, items |-> <<>>]
ByteArray(bytes) == [t |-> "ay", n |-> 0, bytes |-> bytes, items |-> <<>>]
Struct(items) == [t |-> "struct", n |-> 0, bytes |-> <<>>, items |-> items]
Array(items) == [t |-> "array", n |-> 0, bytes |-> <<>>, items |-> items]

\* RefArg::as_iter: only containers can be iterated
as_iter(refarg) ==
    IF refarg.t \in {"array", "struct"} THEN Some(refarg.items)
    ELSE IF refarg.t = "ay"
    THEN Some([i \in DOMAIN refarg.bytes |->
                  [t |-> "u8", n |-> refarg.bytes[i], bytes |-> <<>>, items |-> <<>>]])
    ELSE NoneOpt

\* arg::cast::<i32> and arg::cast::<Vec<u8>>
cast_i32(refarg) == IF refarg.t = "i32" THEN Some(refarg.n) ELSE NoneOpt
cast_bytes(refarg) == IF refarg.t = "ay" THEN Some(refarg.bytes) ELSE NoneOpt

ip_from_bytes(bytes) ==
    IF Len(bytes) = 4 THEN Some([v |-> 4, octets |-> bytes])
    ELSE IF Len(bytes) = 16 THEN Some([v |-> 6, octets |-> bytes])
    ELSE NoneOpt

\* DnsServer::from_refarg: every ? ends the decoding of the entry with None
from_refarg(refarg) ==
    IF as_iter(refarg) = NoneOpt THEN NoneOpt
    ELSE IF Len(as_iter(refarg)[1]) < 1 THEN NoneOpt
    ELSE IF cast_i32(as_iter(refarg)[1][1]) = NoneOpt THEN NoneOpt
    ELSE IF Len(as_iter(refarg)[1]) < 2 THEN NoneOpt
    ELSE IF cast_i32(as_iter(refarg)[1][2]) = NoneOpt THEN NoneOpt
    ELSE IF Len(as_iter(refarg)[1]) < 3 THEN NoneOpt
    ELSE IF cast_bytes(as_iter(refarg)[1][3]) = NoneOpt THEN NoneOpt
    ELSE IF ip_from_bytes(refarg.items[3].bytes) = NoneOpt THEN NoneOpt
    ELSE Some([iface_index |-> refarg.items[1].n,
               address_family |-> refarg.items[2].n,
               address |-> ip_from_bytes(refarg.items[3].bytes)[1]])

\* iter.filter_map(DnsServer::from_refarg).collect()
RECURSIVE filter_map_from_refarg(_)
filter_map_from_refarg(items) ==
    IF items = <<>> THEN <<>>
    ELSE from_refarg(Head(items)) \o filter_map_from_refarg(Tail(items))

\* a decoding that gives up on the whole batch at the first malformed entry
server_list_from_refarg_strict(refarg) ==
    IF as_iter(refarg) = NoneOpt THEN NoneOpt
    ELSE IF \E i \in DOMAIN as_iter(refarg)[1] :
                from_refarg(as_iter(refarg)[1][i]) = NoneOpt
    THEN NoneOpt
    ELSE Some(filter_map_from_refarg(as_iter(refarg)[1]))

\* DnsServer::server_list_from_refarg
server_list_from_refarg(refarg) ==
    IF as_iter(refarg) = NoneOpt THEN NoneOpt
    ELSE Some(filter_map_from_refarg(as_iter(refarg)[1]))

\* the closure given to add_match: the callback invocations one signal causes.
\* changed_properties maps a property name to its new value.
on_properties_changed(prop_changed) ==
    IF ~prop_changed.has_dns THEN <<>>
    ELSE IF server_list_from_refarg(prop_changed.value) = NoneOpt THEN <<>>
    ELSE <<server_list_from_refarg(prop_changed.value)[1]>>

\* the entries of a change signal: (index, family, address bytes)
Entry(iface_index, address_family, bytes) ==
    Struct(<<I32(iface_index), I32(address_family), ByteArray(bytes)>>)
Entry4 == Entry(TunnelIndex, AF_INET, ip_to_bytes(V4a))
Entry16 == Entry(TunnelIndex, AF_INET6, ip_to_bytes(V6a))
Entry5 == Entry(TunnelIndex, AF_INET, <<10, 64, 0, 1, 0>>)
EntryShort == Struct(<<I32(TunnelIndex), I32(AF_INET)>>)
Entries == {Entry4, Entry16, Entry5, EntryShort}

\* the PropertiesChanged signals of the manager object
Signals ==
    {[has_dns |-> TRUE, value |-> Array(batch)] : batch \in SeqsUpTo(Entries, MaxBatch)}
    \cup {[has_dns |-> TRUE, value |-> I32(0)],
          [has_dns |-> TRUE, value |-> Str(0)],
          [has_dns |-> FALSE, value |-> I32(0)]}

\* what one call of SyncConnection::process can do: time out with no message,
\* fail, or dispatch one signal to the registered match
NoSignal == [has_dns |-> FALSE, value |-> I32(0)]
ProcessOutcomes ==
    {[kind |-> "timeout", signal |-> NoSignal], [kind |-> "error", signal |-> NoSignal]}
    \cup {[kind |-> "signal", signal |-> sig] : sig \in Signals}

\* the callback invocations each outcome of process causes
Dispatch == [outcome \in ProcessOutcomes |-> on_properties_changed(outcome.signal)]

NoHistory ==
    [add_match |-> 0, polls |-> 0, last_poll |-> "none", processes |-> 0,
     process_failed |-> FALSE, callbacks |-> 0, remove_match |-> 0,
     outcome |-> [kind |-> "none", signal |-> NoSignal], delivered |-> <<>>]

\* watch_dns_changes up to the ? after add_match
Subscribe(error) ==
    /\ pc = "idle"
    /\ hist' = [hist EXCEPT !.add_match = @ + 1]
    /\ IF error = ""
       THEN /\ dns_matcher' = Some("dns_matcher")
            /\ pc' = "poll"
            /\ wres' = wres
       ELSE /\ dns_matcher' = NoneOpt
            /\ pc' = "returned"
            /\ wres' = "DnsUpdateMatchError"
    /\ UNCHANGED <<keep_running, regVars, ipcVars, preVars>>

\* a loop whose condition is evaluated once and then remembered
Poll_cached ==
    /\ pc = "poll"
    /\ hist.polls < MaxPolls
    /\ LET answer == IF hist.last_poll = "none"
                     THEN (IF keep_running THEN "true" ELSE "false")
                     ELSE hist.last_poll
       IN  /\ hist' = [hist EXCEPT !.polls = @ + 1, !.last_poll = answer]
           /\ pc' = IF answer = "true" THEN "process" ELSE "unsubscribe"
    /\ UNCHANGED <<keep_running, dns_matcher, wres, regVars, ipcVars, preVars>>

\* the loop condition: should_continue()
Poll ==
    /\ pc = "poll"
    /\ keep_running => hist.polls < MaxPolls
    /\ hist' = [hist EXCEPT !.polls = @ + 1, !.last_poll = IF keep_running THEN "true" ELSE "false"]
    /\ pc' = IF keep_running THEN "process" ELSE "unsubscribe"
    /\ UNCHANGED <<keep_running, dns_matcher, wres, regVars, ipcVars, preVars>>

\* a loop body that calls process again after it failed, before asking
\* should_continue
Process_again_on_error(outcome) ==
    /\ pc = "process"
    /\ hist' = [hist EXCEPT !.processes = @ + 1,
                            !.process_failed = @ \/ outcome.kind = "error",
                            !.callbacks = @ + Len(Dispatch[outcome]),
                            !.outcome = outcome,
                            !.delivered = Dispatch[outcome]]
    /\ pc' = IF outcome.kind = "error" /\ hist.processes < MaxPolls
             THEN "process" ELSE "poll"
    /\ UNCHANGED <<keep_running, dns_matcher, wres, regVars, ipcVars, preVars>>

\* the loop body: process(RPC_TIMEOUT), whose error is only logged; a signal
\* that matches runs the closure before process returns
Process(outcome) ==
    /\ pc = "process"
    /\ hist' = [hist EXCEPT !.processes = @ + 1,
                            !.process_failed = @ \/ outcome.kind = "error",
                            !.callbacks = @ + Len(Dispatch[outcome]),
                            !.outcome = outcome,
                            !.delivered = Dispatch[outcome]]
    /\ pc' = "poll"
    /\ UNCHANGED <<keep_running, dns_matcher, wres, regVars, ipcVars, preVars>>

\* remove_match and the return of its result
Unsubscribe(error) ==
    /\ pc = "unsubscribe"
    /\ hist' = [hist EXCEPT !.remove_match = @ + 1]
    /\ dns_matcher' = IF error = "" THEN NoneOpt ELSE dns_matcher
    /\ wres' = IF error = "" THEN "Ok" ELSE "DnsUpdateRemoveMatchError"
    /\ pc' = "returned"
    /\ UNCHANGED <<keep_running, regVars, ipcVars, preVars>>

\* the caller changes what should_continue will return
CallerFlips ==
    /\ pc \in {"poll", "process"}
    /\ keep_running' = ~keep_running
    /\ UNCHANGED <<pc, dns_matcher, hist, wres, regVars, ipcVars, preVars>>

WatchStep ==
    \/ \E error \in {"", "org.freedesktop.DBus.Error.NoReply"} : Subscribe(error)
    \/ Poll
    \/ \E outcome \in ProcessOutcomes : Process(outcome)
    \/ \E error \in {"", "org.freedesktop.DBus.Error.NoReply"} : Unsubscribe(error)

WatchNext == WatchStep \/ CallerFlips

(***************************************************************************)
(* resolv.conf preflight of SystemdResolved::new                           *)
(***************************************************************************)
\* A path is the sequence of its components; an absolute path starts with "/".
RESOLVED_STUB_PATHS ==
    << <<"/", "run", "systemd", "resolve", "stub-resolv.conf">>,
       <<"/", "run", "systemd", "resolve", "resolv.conf">>,
       <<"/", "var", "run", "systemd", "resolve", "stub-resolv.conf">>,
       <<"/", "var", "run", "systemd", "resolve", "resolv.conf">> >>

RESOLV_CONF_PATH == <<"/", "etc", "resolv.conf">>
STATIC_STUB_PATH == <<"/", "usr", "lib", "systemd", "resolv.conf">>

is_relative(path) == path = <<>> \/ path[1] # "/"

\* Path::join of a relative path
path_join(base, path) == base \o path

\* the text of a file is the sequence of its words and of the whitespace
\* characters between them
Whitespace == {" ", "\n", "\t"}

\* the addresses a word of a file can spell
Loopback4 == [v |-> 4, octets |-> <<127, 0, 0, 53>>]
Public4 == [v |-> 4, octets |-> <<8, 8, 8, 8>>]
Loopback6 == [v |-> 6, octets |-> <<0, 0, 0, 0, 0, 0, 0, 0, 0, 0, 0, 0, 0, 0, 0, 1>>]
Spellable == {Loopback4, Public4, Loopback6}
Spelling == [addr \in Spellable |-> Display(addr)]

\* str::parse::<IpAddr>
parse_ip(word) ==
    IF \E addr \in Spellable : Spelling[addr] = word
    THEN Some(CHOOSE addr \in Spellable : Spelling[addr] = word)
    ELSE NoneOpt

\* IpAddr::is_loopback: 127.0.0.0/8 and ::1
is_loopback(addr) ==
    IF addr.v = 4 THEN addr.octets[1] = 127
    ELSE /\ \A i \in 1..15 : addr.octets[i] = 0
         /\ addr.octets[16] = 1

\* str::trim
RECURSIVE trim_start(_)
trim_start(text) ==
    IF text # <<>> /\ Head(text) \in Whitespace THEN trim_start(Tail(text)) ELSE text

RECURSIVE trim_end(_)
trim_end(text) ==
    IF text # <<>> /\ text[Len(text)] \in Whitespace
    THEN trim_end(SubSeq(text, 1, Len(text) - 1)) ELSE text

trim(text) == trim_end(trim_start(text))

\* str::split(' '): the pieces between single spaces, each a sequence of words
\* and of other whitespace characters
RECURSIVE split_space(_, _)
split_space(text, current) ==
    IF text = <<>> THEN <<current>>
    ELSE IF Head(text) = " " THEN <<current>> \o split_space(Tail(text), <<>>)
    ELSE split_space(Tail(text), Append(current, Head(text)))

\* a piece parses as an address only if it is one word that spells one
piece_is_loopback(piece) ==
    /\ Len(piece) = 1
    /\ parse_ip(piece[1]) # NoneOpt
    /\ is_loopback(parse_ip(piece[1])[1])

\* fs::canonicalize of a path under /etc/: ".." steps out of /etc, /var/run is
\* a link to /run, and the file has to exist
canonicalize(path, files) ==
    LET up == IF Len(path) >= 3 /\ path[2] = "etc" /\ path[3] = ".."
              THEN <<"/">> \o SubSeq(path, 4, Len(path)) ELSE path
        real == IF Len(up) >= 3 /\ up[2] = "var" /\ up[3] = "run"
                THEN <<"/", "run">> \o SubSeq(up, 4, Len(up)) ELSE up
    IN  IF real \in DOMAIN files /\ files[real] # NoneOpt
        THEN [ok |-> TRUE, path |-> real]
        ELSE [ok |-> FALSE, path |-> <<>>]

\* the file a path names, following the link from /var/run to /run
FileAt(path, files) ==
    LET real == IF Len(path) >= 3 /\ path[2] = "var" /\ path[3] = "run"
                THEN <<"/", "run">> \o SubSeq(path, 4, Len(path)) ELSE path
    IN  IF real \in DOMAIN files THEN files[real] ELSE NoneOpt

\* fs::read_to_string; /etc/resolv.conf is read through its link
read_to_string(path, f) ==
    IF path # RESOLV_CONF_PATH THEN FileAt(path, f.files)
    ELSE IF f.kind = "file" THEN Some(f.content)
    ELSE IF f.kind = "missing" THEN NoneOpt
    ELSE LET target == IF is_relative(f.target)
                       THEN canonicalize(path_join(<<"/", "etc">>, f.target), f.files)
                       ELSE [ok |-> TRUE, path |-> f.target]
         IN  IF ~target.ok THEN NoneOpt
             ELSE IF target.path \in DOMAIN f.files \/
                     (Len(target.path) >= 3 /\ target.path[2] = "var")
             THEN FileAt(target.path, f.files)
             ELSE Some(f.content)

\* path_is_resolvconf_stub, with the file accesses it makes
path_is_resolvconf_stub(link_path, f) ==
    IF is_relative(link_path)
    THEN LET link_destination == canonicalize(path_join(<<"/", "etc">>, link_path), f.files)
         IN  [is |-> link_destination.ok /\
                     link_destination.path \in Range(RESOLVED_STUB_PATHS),
              log |-> <<<<"canonicalize", path_join(<<"/", "etc">>, link_path)>>>>]
    ELSE [is |-> link_path \in Range(RESOLVED_STUB_PATHS), log |-> <<>>]

\* resolv_conf_is_static_stub: Ok(false) unless the link is the static stub,
\* which has to name a loopback address
resolv_conf_is_static_stub(link_path, f) ==
    IF link_path = STATIC_STUB_PATH
    THEN LET contents == read_to_string(link_path, f)
             points_to_localhost ==
                 /\ contents # NoneOpt
                 /\ LET parts == split_space(trim(contents[1]), <<>>)
                    IN  \E i \in DOMAIN parts : piece_is_loopback(parts[i])
         IN  [res |-> IF points_to_localhost THEN "true"
                      ELSE "StaticStubNotPointingToLocalhost",
              log |-> <<<<"read_to_string", link_path>>>>]
    ELSE [res |-> "false", log |-> <<>>]

\* the stub files read until one equals resolv_conf: any() stops at a match
RECURSIVE CompareStubs(_, _, _)
CompareStubs(i, resolv_conf, f) ==
    IF i > Len(RESOLVED_STUB_PATHS) THEN [found |-> FALSE, log |-> <<>>]
    ELSE LET link_contents == read_to_string(RESOLVED_STUB_PATHS[i], f)
             here == <<<<"read_to_string", RESOLVED_STUB_PATHS[i]>>>>
             rest == CompareStubs(i + 1, resolv_conf, f)
         IN  IF link_contents # NoneOpt /\ link_contents[1] = resolv_conf
             THEN [found |-> TRUE, log |-> here]
             ELSE [found |-> rest.found, log |-> here \o rest.log]

\* ensure_resolvconf_contents
ensure_resolvconf_contents(f) ==
    LET resolv_conf == read_to_string(RESOLV_CONF_PATH, f)
        here == <<<<"read_to_string", RESOLV_CONF_PATH>>>>
        stubs == CompareStubs(1, resolv_conf[1], f)
    IN  IF resolv_conf = NoneOpt THEN [res |-> "ReadResolvConfError", log |-> here]
        ELSE [res |-> IF stubs.found THEN "Ok" ELSE "ResolvConfDiffers",
              log |-> here \o stubs.log]

\* the preflight with all three checks evaluated before they are combined
ensure_resolv_conf_eager(f) ==
    LET read_link == <<<<"read_link", RESOLV_CONF_PATH>>>>
        stub == path_is_resolvconf_stub(f.target, f)
        static == resolv_conf_is_static_stub(f.target, f)
        contents == ensure_resolvconf_contents(f)
        all == read_link \o stub.log \o static.log \o contents.log
    IN  IF f.kind = "symlink"
        THEN IF static.res = "StaticStubNotPointingToLocalhost"
             THEN [res |-> static.res, log |-> read_link \o stub.log \o static.log,
                   accepted_by |-> "none"]
             ELSE IF stub.is
             THEN [res |-> "Ok", log |-> all, accepted_by |-> "stub"]
             ELSE IF static.res = "true"
             THEN [res |-> "Ok", log |-> all, accepted_by |-> "static"]
             ELSE [res |-> IF contents.res = "Ok" THEN "Ok"
                           ELSE "NotSymlinkedToResolvConf",
                   log |-> all,
                   accepted_by |-> IF contents.res = "Ok" THEN "contents" ELSE "none"]
        ELSE IF f.kind = "file"
        THEN [res |-> contents.res, log |-> read_link \o contents.log,
              accepted_by |-> IF contents.res = "Ok" THEN "contents" ELSE "none"]
        ELSE [res |-> "NotSymlinkedToResolvConf", log |-> read_link,
              accepted_by |-> "none"]

\* ensure_resolv_conf_is_resolved_symlink: a || b? || c, evaluated left to right
ensure_resolv_conf_is_resolved_symlink(f) ==
    LET read_link == <<<<"read_link", RESOLV_CONF_PATH>>>>
        stub == path_is_resolvconf_stub(f.target, f)
        static == resolv_conf_is_static_stub(f.target, f)
        contents == ensure_resolvconf_contents(f)
    IN  IF f.kind = "symlink"
        THEN IF stub.is
             THEN [res |-> "Ok", log |-> read_link \o stub.log, accepted_by |-> "stub"]
             ELSE IF static.res = "StaticStubNotPointingToLocalhost"
             THEN [res |-> static.res, log |-> read_link \o stub.log \o static.log,
                   accepted_by |-> "none"]
             ELSE IF static.res = "true"
             THEN [res |-> "Ok", log |-> read_link \o stub.log \o static.log,
                   accepted_by |-> "static"]
             ELSE [res |-> IF contents.res = "Ok" THEN "Ok"
                           ELSE "NotSymlinkedToResolvConf",
                   log |-> read_link \o stub.log \o static.log \o contents.log,
                   accepted_by |-> IF contents.res = "Ok" THEN "contents" ELSE "none"]
        ELSE IF f.kind = "file"
        THEN [res |-> contents.res, log |-> read_link \o contents.log,
              accepted_by |-> IF contents.res = "Ok" THEN "contents" ELSE "none"]
        ELSE [res |-> "NotSymlinkedToResolvConf", log |-> read_link,
              accepted_by |-> "none"]

\* file texts
StubText == <<"nameserver", " ", "127.0.0.53", "\n">>
UplinkText == <<"nameserver", " ", "8.8.8.8", "\n">>
\* the static stub as systemd ships it: the nameserver line is followed by more
ShippedStaticText ==
    <<"nameserver", " ", "127.0.0.53", "\n", "options", " ", "edns0", "\n">>
StaticTexts == {<<"127.0.0.53">>, <<"8.8.8.8">>,
                <<"nameserver", " ", "127.0.0.53", "\n">>, ShippedStaticText}

\* what /etc/resolv.conf can link to
LinkTargets ==
    Range(RESOLVED_STUB_PATHS) \cup
    {STATIC_STUB_PATH,
     <<"..", "run", "systemd", "resolve", "stub-resolv.conf">>,
     <<"..", "usr", "lib", "systemd", "resolv.conf">>,
     <<"/", "run", "NetworkManager", "resolv.conf">>}

Optional(S) == {NoneOpt} \cup {Some(x) : x \in S}

\* the files under /run/systemd/resolve and the static stub: present or not
KnownFiles == {RESOLVED_STUB_PATHS[1], RESOLVED_STUB_PATHS[2], STATIC_STUB_PATH}

FileMaps ==
    {m \in [KnownFiles -> Optional({StubText, UplinkText} \cup StaticTexts)] :
        /\ m[RESOLVED_STUB_PATHS[1]] \in Optional({StubText, UplinkText})
        /\ m[RESOLVED_STUB_PATHS[2]] \in Optional({UplinkText})
        /\ m[STATIC_STUB_PATH] \in Optional(StaticTexts)}

FileSystems ==
    {f \in [kind : {"symlink", "file", "missing"},
            target : LinkTargets \cup {<<>>},
            content : {StubText, UplinkText},
            files : FileMaps] :
        /\ f.kind = "symlink" <=> f.target # <<>>
        /\ f.kind = "missing" => f.content = StubText}

NoPreflight == [res |-> "none", log |-> <<>>, accepted_by |-> "none"]

NoFiles == [kind |-> "missing", target |-> <<>>, content |-> StubText,
            files |-> [path \in KnownFiles |-> NoneOpt]]

\* the preflight step of SystemdResolved::new
Preflight ==
    /\ pre' = ensure_resolv_conf_is_resolved_symlink(fs)
    /\ UNCHANGED <<fs, regVars, ipcVars, watchVars>>

PreNext == Preflight

(***************************************************************************)
(* Specifications: one per backend                                         *)
(***************************************************************************)
\* DnsMonitor::new, on an interface that may lack configuration keys
InitRegistry ==
    /\ current_guid = NoneOpt
    /\ reg = NewRegistry
    /\ key_exists \in KeyLayouts
    /\ applied = FALSE
    /\ last = NoCall
    /\ link = NoLinkConfig
    /\ rpcs = <<>>
    /\ ret = NoOperation
    /\ fs = NoFiles
    /\ pre = NoPreflight
    /\ pc = "idle"
    /\ keep_running = TRUE
    /\ dns_matcher = NoneOpt
    /\ hist = NoHistory
    /\ wres = "none"

\* SystemdResolved::new done, nothing configured
InitResolved ==
    /\ current_guid = NoneOpt
    /\ reg = NewRegistry
    /\ key_exists = AllKeys
    /\ applied = FALSE
    /\ last = NoCall
    /\ link = NoLinkConfig
    /\ rpcs = <<>>
    /\ ret = NoOperation
    /\ fs = NoFiles
    /\ pre = NoPreflight
    /\ pc = "idle"
    /\ keep_running = TRUE
    /\ dns_matcher = NoneOpt
    /\ hist = NoHistory
    /\ wres = "none"

\* SystemdResolved::new about to check /etc/resolv.conf, on any file system
InitPreflight ==
    /\ current_guid = NoneOpt
    /\ reg = NewRegistry
    /\ key_exists = AllKeys
    /\ applied = FALSE
    /\ last = NoCall
    /\ link = NoLinkConfig
    /\ rpcs = <<>>
    /\ ret = NoOperation
    /\ fs \in FileSystems
    /\ pre = NoPreflight
    /\ pc = "idle"
    /\ keep_running = TRUE
    /\ dns_matcher = NoneOpt
    /\ hist = NoHistory
    /\ wres = "none"

SpecRegistry == InitRegistry /\ [][RegNext]_vars

\* DnsMonitor::new with two tunnel interfaces present, both with all their keys
InitTwoInterfaces ==
    /\ current_guid = NoneOpt
    /\ reg = NewRegistry
    /\ key_exists = AllKeys
    /\ applied = FALSE
    /\ last = NoCall
    /\ link = NoLinkConfig
    /\ rpcs = <<>>
    /\ ret = NoOperation
    /\ fs = NoFiles
    /\ pre = NoPreflight
    /\ pc = "idle"
    /\ keep_running = TRUE
    /\ dns_matcher = NoneOpt
    /\ hist = NoHistory
    /\ wres = "none"

SpecTwoInterfaces == InitTwoInterfaces /\ [][TwoInterfacesNext]_vars

\* DnsMonitor::new on a system where LLMNR cannot always be disabled
SpecMulticast == InitRegistry /\ [][MulticastNext]_vars

SpecResolved == InitResolved /\ [][IpcNext]_vars

SpecPreflight == InitPreflight /\ [][PreNext]_vars

\* SystemdResolved::new done, watch_dns_changes not yet called
InitWatch ==
    /\ current_guid = NoneOpt
    /\ reg = NewRegistry
    /\ key_exists = AllKeys
    /\ applied = FALSE
    /\ last = NoCall
    /\ link = NoLinkConfig
    /\ rpcs = <<>>
    /\ ret = NoOperation
    /\ fs = NoFiles
    /\ pre = NoPreflight
    /\ pc = "idle"
    /\ keep_running \in BOOLEAN
    /\ dns_matcher = NoneOpt
    /\ hist = NoHistory
    /\ wres = "none"

SpecWatch == InitWatch /\ [][WatchNext]_vars

\* every call watch_dns_changes makes returns: process is bounded by RPC_TIMEOUT
SpecWatchFair == SpecWatch /\ WF_vars(WatchStep)

(***************************************************************************)
(* Properties of the registry-backed configurator                          *)
(***************************************************************************)
BothKeysExist(guid) == \A s \in Services : key_exists[guid][s]

\* the comma-separated text of the servers of one family, in input order
RECURSIVE CommaJoined(_, _)
CommaJoined(servers, family) ==
    IF servers = <<>> THEN ""
    ELSE LET rest == CommaJoined(Tail(servers), family)
             head == Head(servers)
         IN  IF head.v # family THEN rest
             ELSE IF rest = "" THEN Display(head)
             ELSE Display(head) \o "," \o rest

ExpectedEntry(servers, family) ==
    IF CommaJoined(servers, family) = "" THEN NoneOpt
    ELSE Some(CommaJoined(servers, family))

\* C1: the registry update of set and reset is all-or-nothing: the transaction
\* is committed only if both namespace updates succeeded; when an update fails
\* the transaction is rolled back, the stored values are what they were before
\* the call and the call returns an error.
C1_AllOrNothing ==
    [][last'.tx_opened =>
          /\ last'.committed => last'.updates = <<TRUE, TRUE>>
          /\ ~last'.committed => reg' = reg /\ last'.result = "SetResolversError"
          /\ FALSE \in Range(last'.updates) => last'.rollback /\ ~last'.committed
      ]_regVars

\* the IPv6 update failed after the IPv4 NameServer had been written inside the
\* transaction, which was rolled back
C1_Witness ==
    /\ last.op = "set"
    /\ last.updates = <<TRUE, FALSE>>
    /\ last.opened[1]
    /\ Filter(last.servers, is_ipv4) # <<>>
    /\ last.rollback
    /\ last.result = "SetResolversError"

\* C2: after a successful set on an interface with both keys, each namespace's
\* NameServer is the comma-joined list of the servers of its family in input
\* order, and is absent when the list has no server of that family.
C2_EntriesMatchPartition ==
    (last.op = "set" /\ last.result = "Ok" /\ BothKeysExist(last.guid[1])) =>
        /\ reg[last.guid[1]]["Tcpip"].NameServer = ExpectedEntry(last.servers, 4)
        /\ reg[last.guid[1]]["Tcpip6"].NameServer = ExpectedEntry(last.servers, 6)

\* a successful set of two IPv4 servers given in descending order
C2_Witness ==
    /\ last.op = "set" /\ last.result = "Ok"
    /\ BothKeysExist(last.guid[1])
    /\ last.servers = <<V4a, V4b>>
    /\ reg[last.guid[1]]["Tcpip"].NameServer = Some("10.64.0.1,10.8.0.1")
    /\ reg[last.guid[1]]["Tcpip6"].NameServer = NoneOpt

\* C3: the tracked interface is non-empty if and only if a configuration was
\* committed by set and no reset has committed since.
C3_TrackedIffApplied == (current_guid # NoneOpt) <=> applied

\* C4: a reset with a tracked interface flushes the cache once, leaves nothing
\* tracked and, when it succeeds, has committed a transaction after which both
\* NameServer entries of that interface are absent; a reset with nothing tracked
\* opens no transaction, flushes nothing, changes no value and succeeds.
C4_ResetIdempotent ==
    [][last'.op = "reset" =>
          /\ current_guid' = NoneOpt
          /\ current_guid = NoneOpt =>
                /\ ~last'.tx_opened
                /\ last'.flush_calls = 0
                /\ reg' = reg
                /\ last'.result = "Ok"
          /\ current_guid # NoneOpt =>
                /\ last'.guid = current_guid
                /\ last'.flush_calls = 1
                /\ last'.result = "Ok" =>
                      /\ last'.tx_opened /\ last'.committed
                      /\ \A s \in Services :
                            reg'[current_guid[1]][s].NameServer = NoneOpt
      ]_regVars

\* a reset with nothing tracked, after an earlier set and reset of "tun0"
C4_Witness ==
    /\ last.op = "reset" /\ last.guid = NoneOpt /\ last.result = "Ok"
    /\ current_guid = NoneOpt
    /\ ~applied
    /\ reg["guid0"]["Tcpip"].EnableMulticast = Some(0)
    /\ \A s \in Services : reg["guid0"][s].NameServer = NoneOpt

\* C5 as stated: the tracked interface changes only when set returns success.
C5_TrackedOnlyOnSuccess ==
    [][last'.op = "set" =>
          IF last'.result = "Ok" THEN current_guid' = last'.guid
          ELSE current_guid' = current_guid
      ]_regVars

\* C5 amended: the tracked interface becomes the resolved identifier exactly
\* when the transactional update committed, whatever the cache flush returns;
\* when resolution or the update fails it is left as it was.
C5_TrackedOnCommit ==
    [][last'.op = "set" =>
          /\ last'.committed => current_guid' = last'.guid
          /\ ~last'.committed => current_guid' = current_guid /\ last'.result # "Ok"
      ]_regVars

\* set returned a cache-flush error and the interface is tracked
C5_Witness ==
    /\ last.op = "set"
    /\ last.result \in {"SystemDirError", "ExecuteIpconfigError"}
    /\ last.committed
    /\ current_guid = last.guid

(***************************************************************************)
(* Properties of the systemd-resolved configurator                         *)
(***************************************************************************)
Methods(calls) == [i \in DOMAIN calls |-> calls[i].method]

\* C6: the set_servers of the DnsState returned by set_dns is in ascending
\* order without repetition and holds exactly the addresses of the input.
C6_SortedDeduplicated ==
    (ret.op = "set_dns" /\ ret.res.ok) =>
        LET set_servers == ret.res.state[1].set_servers
        IN  /\ \A i \in 1..(Len(set_servers) - 1) :
                  AddrLess(set_servers[i], set_servers[i + 1])
            /\ Range(set_servers) = Range(ret.servers)

\* C7: the SetDNS payload has one (family tag, raw bytes) entry per input
\* server, in input order with repetitions kept: 4 bytes tagged AF_INET for an
\* IPv4 address, 16 bytes tagged AF_INET6 for an IPv6 address.
C7_PayloadInInputOrder ==
    ret.op = "set_dns" =>
        \A i \in DOMAIN rpcs :
            rpcs[i].method = SET_DNS_METHOD =>
                LET payload == rpcs[i].args[1]
                IN  /\ Len(rpcs[i].args) = 1
                    /\ Len(payload) = Len(ret.servers)
                    /\ \A k \in DOMAIN payload :
                          /\ payload[k][2] = ret.servers[k].octets
                          /\ ret.servers[k].v = 4 =>
                                payload[k][1] = 2 /\ Len(payload[k][2]) = 4
                          /\ ret.servers[k].v = 6 =>
                                payload[k][1] = 10 /\ Len(payload[k][2]) = 16

\* set_dns succeeded on an IPv6 server followed by an IPv4 server: the payload
\* keeps that order, the retained list does not
C7_Witness ==
    /\ ret.op = "set_dns" /\ ret.res.ok
    /\ ret.servers = <<V6a, V4a>>
    /\ ret.res.state[1].set_servers = <<V4a, V6a>>
    /\ Len(rpcs) >= 2
    /\ rpcs[2].method = SET_DNS_METHOD
    /\ rpcs[2].args[1][1][1] = 10

\* C8: set_dns calls GetLink, SetDNS, SetDomains in that order, each at most
\* once and each only if the one before succeeded, the last two on the path
\* GetLink returned; it returns a DnsState only if all three succeeded, and the
\* failing call determines the error.
C8_RpcOrder ==
    ret.op = "set_dns" =>
        /\ Len(rpcs) \in 1..3
        /\ Methods(rpcs) =
              SubSeq(<<GET_LINK_METHOD, SET_DNS_METHOD, SET_DOMAINS_METHOD>>, 1, Len(rpcs))
        /\ \A i \in 1..(Len(rpcs) - 1) : rpcs[i].ok
        /\ rpcs[1].path = RESOLVED_MANAGER_PATH
        /\ rpcs[1].args = <<TunnelIndex>>
        /\ \A i \in 2..Len(rpcs) : rpcs[i].path = rpcs[1].reply
        /\ Len(rpcs) = 3 => rpcs[3].args = << << <<".", TRUE>> >> >>
        /\ ret.res.ok <=> (Len(rpcs) = 3 /\ rpcs[3].ok)
        /\ ret.res.ok <=> ret.res.state # NoneOpt
        /\ ret.res.ok => ret.res.state[1].interface_path = rpcs[1].reply
        /\ ~rpcs[Len(rpcs)].ok =>
              /\ Len(rpcs) = 1 => ret.res.err = "GetLinkError" /\
                                  ret.res.source = "DBusRpcError"
              /\ Len(rpcs) = 2 => ret.res.err = "DBusRpcError"
              /\ Len(rpcs) = 3 => ret.res.err = "SetDomainsError"

\* SetDomains failed after GetLink and SetDNS had succeeded
C8_Witness ==
    /\ ret.op = "set_dns" /\ ~ret.res.ok
    /\ ret.res.err = "SetDomainsError"
    /\ Len(rpcs) = 3
    /\ rpcs[2].ok /\ ~rpcs[3].ok

\* C9: revert_link makes one Revert call without arguments on the stored link
\* path; it succeeds when the call succeeds or fails with UnknownObject, and
\* returns any other error of the call as it is.
C9_RevertTolerant ==
    ret.op = "revert_link" =>
        /\ Len(rpcs) = 1
        /\ rpcs[1].method = REVERT_METHOD
        /\ rpcs[1].interface = LINK_INTERFACE
        /\ rpcs[1].path = ret.dns_state[1].interface_path
        /\ rpcs[1].args = <<>>
        /\ ret.res.ok <=> (rpcs[1].ok \/ rpcs[1].error = UnknownObject)
        /\ ~ret.res.ok => ret.res.err = rpcs[1].error

\* the link of a DnsState with servers is gone and the revert succeeds
C9_Witness ==
    /\ ret.op = "revert_link" /\ ret.res.ok
    /\ ret.dns_state[1].set_servers # <<>>
    /\ rpcs[1].error = UnknownObject

(***************************************************************************)
(* Properties of the resolv.conf preflight                                 *)
(***************************************************************************)
\* C10: when /etc/resolv.conf is a link whose absolute target is one of the
\* stub paths, the preflight succeeds at the first check: the only file access
\* is the read of the link, and no file content is read.
C10_StubLinkShortCircuits ==
    (pre.res # "none" /\ fs.kind = "symlink" /\ ~is_relative(fs.target)
        /\ fs.target \in Range(RESOLVED_STUB_PATHS)) =>
            /\ pre.res = "Ok"
            /\ pre.accepted_by = "stub"
            /\ pre.log = << <<"read_link", RESOLV_CONF_PATH>> >>

\* the link names the first stub path, which does not exist, while the other
\* files would not have matched
C10_Witness ==
    /\ pre.res = "Ok"
    /\ fs.kind = "symlink"
    /\ fs.target = <<"/", "run", "systemd", "resolve", "stub-resolv.conf">>
    /\ fs.files[fs.target] = NoneOpt
    /\ fs.files[STATIC_STUB_PATH] = Some(<<"8.8.8.8">>)


\* the whitespace-separated tokens of a text
Tokens(text) == {text[i] : i \in {j \in DOMAIN text : text[j] \notin Whitespace}}

HasLoopbackToken(text) ==
    \E word \in Tokens(text) :
        parse_ip(word) # NoneOpt /\ is_loopback(parse_ip(word)[1])

LinkedToStaticStub ==
    /\ pre.res # "none"
    /\ fs.kind = "symlink"
    /\ fs.target = STATIC_STUB_PATH
    /\ fs.files[STATIC_STUB_PATH] # NoneOpt

\* C11: when /etc/resolv.conf links to the static stub and that file exists, the
\* preflight succeeds if some whitespace-separated token of the file is a
\* loopback address, and otherwise fails with StaticStubNotPointingToLocalhost
\* without reading /etc/resolv.conf for the content comparison.
C11_StaticStubByTokens ==
    LinkedToStaticStub =>
        IF HasLoopbackToken(fs.files[STATIC_STUB_PATH][1])
        THEN pre.res = "Ok"
        ELSE /\ pre.res = "StaticStubNotPointingToLocalhost"
             /\ \A i \in DOMAIN pre.log : pre.log[i] # <<"read_to_string", RESOLV_CONF_PATH>>


(***************************************************************************)
(* Properties of watch_dns_changes                                         *)
(***************************************************************************)
\* an entry that carries an address of 4 or of 16 bytes
WellFormed(entry) ==
    /\ entry.t = "struct"
    /\ Len(entry.items) >= 3
    /\ Len(entry.items[3].bytes) \in {4, 16}

DnsServerOf(entry) ==
    [iface_index |-> entry.items[1].n,
     address_family |-> entry.items[2].n,
     address |-> CHOOSE a \in Addrs : ip_to_bytes(a) = entry.items[3].bytes]

ExpectedServers(batch) == MapSeq(Filter(batch, WellFormed), DnsServerOf)

\* C12: a processed signal that carries the DNS property invokes the callback
\* exactly once when its payload is a list, with the well-formed entries (4 or
\* 16 address bytes) in their original order, and not at all when the payload
\* is not a list.
C12_OneCallbackPerBatch ==
    [][(hist'.processes = hist.processes + 1 /\ hist'.outcome.kind = "signal"
            /\ hist'.outcome.signal.has_dns)
        => IF hist'.outcome.signal.value.t = "array"
           THEN /\ hist'.callbacks = hist.callbacks + 1
                /\ hist'.delivered = <<ExpectedServers(hist'.outcome.signal.value.items)>>
           ELSE /\ hist'.callbacks = hist.callbacks
                /\ hist'.delivered = <<>>]_vars

\* a batch of one 4-byte and one 5-byte entry was delivered as one DnsServer
C12_Witness ==
    /\ hist.outcome.kind = "signal"
    /\ hist.outcome.signal.value = Array(<<Entry4, Entry5>>)
    /\ hist.callbacks = 1
    /\ hist.delivered = <<<<[iface_index |-> TunnelIndex, address_family |-> AF_INET,
                             address |-> V4a]>>>>

\* C13: subscribe, then (should_continue, process)*, then one unsubscribe:
\* every process call follows a should_continue that returned true, nothing is
\* processed after should_continue returned false, remove_match is attempted
\* exactly once after the loop, and a failed add_match returns its error
\* without polling, processing or unsubscribing.
C13_WatchOrder ==
    /\ [](/\ hist.add_match <= 1
          /\ hist.remove_match <= 1
          /\ hist.processes <= hist.polls
          /\ (pc = "process" => hist.last_poll = "true")
          /\ (pc = "returned" =>
                 IF hist.add_match = 1 /\ wres = "DnsUpdateMatchError"
                 THEN hist.polls = 0 /\ hist.processes = 0 /\ hist.remove_match = 0
                 ELSE hist.remove_match = 1 /\ hist.last_poll = "false"))
    /\ [][hist'.polls # hist.polls => hist.add_match = 1 /\ dns_matcher # NoneOpt]_vars
    /\ [][hist'.processes # hist.processes =>
              hist.last_poll = "true" /\ hist.polls = hist.processes + 1]_vars
    /\ [][hist.last_poll = "false" =>
              /\ hist'.processes = hist.processes
              /\ hist'.callbacks = hist.callbacks
              /\ hist'.polls = hist.polls]_vars
    /\ [][hist'.remove_match # hist.remove_match => hist.last_poll = "false"]_vars

\* the call returned after a loop that processed a signal and called back
C13_Witness ==
    /\ pc = "returned"
    /\ hist.processes >= 1
    /\ hist.callbacks >= 1
    /\ hist.remove_match = 1
    /\ hist.process_failed

\* C14: whenever the call is running and should_continue would return false,
\* the call unsubscribes and returns unless the caller makes the predicate
\* true again, also after failed process calls; and a call whose subscription
\* succeeded returns only after should_continue returned false.
C14_CooperativeTermination ==
    /\ ((pc # "idle" /\ ~keep_running) ~> (pc = "returned" \/ keep_running))
    /\ [](pc = "returned" /\ wres # "DnsUpdateMatchError" => hist.last_poll = "false")

\* returned although a process call had failed and the caller had wanted to go on
C14_Witness ==
    /\ pc = "returned"
    /\ hist.last_poll = "false"
    /\ hist.polls >= 2
    /\ hist.process_failed


(***************************************************************************)
(* Further properties of the registry-backed configurator                  *)
(***************************************************************************)
\* C15: a successful set makes its interface the tracked one, whatever was
\* tracked before, and a reset changes no stored value of any interface other
\* than the tracked one: after set on A and set on B the reset clears B and
\* leaves A's entries as they are, as does every later reset.
C15_LastSetWins ==
    /\ [][last'.op = "set" /\ last'.result = "Ok" /\ last' # last
             => current_guid' = last'.guid]_vars
    /\ [][last'.op = "reset" =>
             \A g \in Guids : current_guid # Some(g) => reg'[g] = reg[g]]_vars

\* the reset after set on tun0 and set on tun1 cleared guid1 and left guid0 alone
C15_Witness ==
    /\ last.op = "reset" /\ last.result = "Ok" /\ last.committed
    /\ last.guid = Some("guid1")
    /\ current_guid = NoneOpt
    /\ reg["guid0"]["Tcpip"].NameServer = Some("10.64.0.1")
    /\ reg["guid1"]["Tcpip"].NameServer = NoneOpt


ServiceAt(idx) == IF idx = 1 THEN "Tcpip" ELSE "Tcpip6"

Partition(servers, idx) ==
    IF idx = 1 THEN Filter(servers, is_ipv4) ELSE Filter(servers, is_ipv6)

\* the call recorded in last' reached the update of namespace idx
Attempted(idx) == last'.guid # NoneOpt /\ last' # last /\ Len(last'.updates) >= idx

\* C16: a namespace whose key is missing is skipped with success, and without
\* a write, when its partition is empty; a missing key with a non-empty
\* partition, or a key that fails to open for another reason, fails the
\* update, rolls the transaction back and returns an error; deleting an absent
\* NameServer succeeds; a call whose updates all succeed commits.
C16_MissingKeyTolerance ==
    [][\A idx \in {1, 2} : Attempted(idx) =>
          LET g == last'.guid[1]
              s == ServiceAt(idx)
              missing == ~key_exists[g][s]
              denied == last'.fault.primary = <<"open", s>>
              empty == Partition(last'.servers, idx) = <<>>
          IN  /\ (missing /\ ~denied /\ empty) =>
                    /\ last'.updates[idx]
                    /\ ~last'.opened[idx]
                    /\ reg'[g][s] = reg[g][s]
              /\ ((missing /\ ~empty) \/ denied) =>
                    /\ ~last'.updates[idx]
                    /\ last'.rollback /\ ~last'.committed
                    /\ last'.result = "SetResolversError"
                    /\ reg' = reg
              /\ (~missing /\ ~denied /\ empty /\ reg[g][s].NameServer = NoneOpt
                    /\ last'.fault.primary # <<"write", s>>) => last'.updates[idx]
              /\ (last'.updates = <<TRUE, TRUE>>
                    /\ last'.fault.primary # <<"commit">>) => last'.committed]_vars

\* an IPv4-only set committed on an interface without its Tcpip6 key
C16_Witness ==
    /\ last.op = "set" /\ last.guid = Some("guid0")
    /\ ~key_exists["guid0"]["Tcpip6"] /\ key_exists["guid0"]["Tcpip"]
    /\ last.servers = <<V4a>>
    /\ last.opened = <<TRUE, FALSE>>
    /\ last.committed /\ last.result = "Ok"
    /\ reg["guid0"]["Tcpip"].NameServer = Some("10.64.0.1")

\* C17: set and reset invoke the cache flush once after an update that
\* committed and never after an update that failed or was rolled back.
C17_FlushFollowsCommit ==
    last.guid # NoneOpt => last.flush_calls = IF last.committed THEN 1 ELSE 0


\* C18: a failing EnableMulticast write changes nothing but that value: the
\* updates, the commit or rollback, the result of the call and the stored
\* NameServer entries are those of the same call with the write succeeding.
C18_MulticastBestEffort ==
    [][(last'.multicast_failed /\ last' # last) =>
          LET g == last'.guid[1]
              ref == set_dns(reg, key_exists, g, last'.servers, NoFaults)
          IN  /\ last'.updates = ref.updates
              /\ last'.rollback = ref.rollback
              /\ last'.committed = ref.committed
              /\ last'.result = ref.result
              /\ \A s \in Services :
                    reg'[g][s].NameServer = ref.store[g][s].NameServer]_vars

\* a set committed its NameServer although LLMNR could not be disabled
C18_Witness ==
    /\ last.op = "set" /\ last.multicast_failed
    /\ last.fault.primary = <<"multicast", "Tcpip">>
    /\ last.committed /\ last.result = "Ok" /\ ~last.rollback
    /\ reg["guid0"]["Tcpip"].NameServer = Some("10.64.0.1")
    /\ reg["guid0"]["Tcpip"].EnableMulticast = NoneOpt


(***************************************************************************)
(* Failures and what they leave behind                                     *)
(***************************************************************************)
\* C19: a failed call is not issued again and makes the operation return an
\* error: after a process call of watch_dns_changes has failed, no further
\* process call is made and the call does not return Ok.
C19_FailuresSurface ==
    /\ [][hist.process_failed => hist'.processes = hist.processes]_vars
    /\ [](pc = "returned" /\ hist.process_failed => wres # "Ok")

\* C20: a set_dns that returns an error leaves the DNS servers resolved has
\* for the link as they were before the call.
C20_FailedSetDnsLeavesLink ==
    [][(ret'.op = "set_dns" /\ ~ret'.res.ok) => link'.dns = link.dns]_vars

====
